---- MODULE Spec2Model ----
(***************************************************************************)
(* Model of the python-helpers scripts: grid placement of airflow holes,   *)
(* the greedy text layout of the stencil scripts, the interactive prompts, *)
(* the hole and word loops, the main functions, and the helper scripts     *)
(* for meshes, images and videos.                                          *)
(*                                                                         *)
(* Arithmetic is exact.  Lengths of the grid are integers in an arbitrary  *)
(* unit; centred coordinates (x - width/2) are stored doubled so that the  *)
(* halving is exact.                                                       *)
(***************************************************************************)
EXTENDS Integers, Naturals, Sequences, FiniteSets, TLC

VARIABLES
    pc,             \* position of the running script
    fn,             \* which function / script is running
    width,          \* create_airflow_mesh: width            (airflow.py:13)
    length,         \* create_airflow_mesh: length           (airflow.py:13)
    hole_spacing,   \* hole_spacing argument
    min_x,          \* add_airflow_holes: bbox.min.x         (create_airflow.py:120)
    max_x,          \* add_airflow_holes: bbox.max.x
    min_y,          \* add_airflow_holes: bbox.min.y         (create_airflow.py:121)
    max_y,          \* add_airflow_holes: bbox.max.y
    x_positions,    \* np.arange result
    y_positions,    \* np.arange result
    hole_positions, \* list of hole positions
    text,           \* calculate_text_layout: text (a sequence of characters)
    text_height,    \* calculate_text_layout: text_height
    max_width,      \* calculate_text_layout: max_width
    top_margin,     \* calculate_text_layout: top_margin
    side_margin,    \* calculate_text_layout: side_margin
    words,          \* text.split()
    word_idx,       \* index of the next word of "for word in words"
    lines,          \* finished lines
    current_line,   \* words of the line being filled
    current_width,  \* running width of the line being filled (tenths)
    plane_width,    \* returned width  (tenths)
    plane_height,   \* returned height (tenths)
    word_positions, \* returned placements
    seen,           \* an earlier call: its arguments and its result
    params,         \* get_user_input: the values accepted so far, by name
    entry,          \* get_user_input: the line read last
    printed,        \* get_user_input / main: the message printed last
    retries,        \* get_user_input: number of rejected entries so far
    hole_idx,       \* hole loops: index of the next hole position
    ms,             \* create_airflow_mesh: the pymeshlab MeshSet, a list of meshes
    result_mesh,    \* add_airflow_holes: result_mesh
    tmp_live,       \* temporary files that exist
    failed_files,   \* temporary files whose export or load failed
    io_failed,      \* whether an export, load or unlink step has failed
    booleans,       \* number of boolean operations performed
    outcomes,       \* hole loops: what happened to each hole so far
    exit_status,    \* main: exit status of the process, -1 while it runs
    saved,          \* main: the files whose save_mesh call completed
    shown,          \* main: kinds of messages printed by main and save_mesh
    raised,         \* main: the exception raised last, "" while none
    wall_meshes,    \* create_airflow_box.py: value returned by create_wall_mesh
    word_log,       \* stencil word loop: how font, mesh and cut of each word ended
    cuts,           \* stencil word loop: the cuts made in the plane
    font_path,      \* create_text_stencil: the font_path argument
    percentage,     \* simplifyModel.py: percentage (in hundredths)
    vertex_count,   \* simplifyModel.py: vertices of the mesh file
    target_count,   \* simplifyModel.py: target_vertex_count
    io_log,         \* simplifyModel.py: reads and writes done
    args,           \* helper scripts: the arguments of the running function, by name
    locals          \* helper scripts: its local variables, by name

gridVars == <<width, length, hole_spacing, min_x, max_x, min_y, max_y,
              x_positions, y_positions, hole_positions>>

layoutArgs == <<text, text_height, max_width, top_margin, side_margin>>

layoutLocals == <<words, word_idx, lines, current_line, current_width>>

layoutResult == <<plane_width, plane_height, word_positions>>

layoutVars == <<layoutArgs, layoutLocals, layoutResult, seen>>

inputVars == <<params, entry, printed, retries>>

meshVars == <<hole_idx, ms, result_mesh, tmp_live, failed_files, io_failed, booleans, outcomes>>

mainVars == <<exit_status, saved, shown, raised, wall_meshes>>

stencilVars == <<word_log, cuts, font_path>>

simplifyVars == <<percentage, vertex_count, target_count, io_log>>

helperVars == <<args, locals>>

vars == <<pc, fn, gridVars, layoutVars, inputVars, meshVars, mainVars, stencilVars,
          simplifyVars, helperVars>>

----------------------------------------------------------------------------
(* Bounds of the model *)

MaxExtent == 20
MaxSpacing == 5
MaxCorner == 1
MaxTextLen == 6
MaxRepeatLen == 3
MaxRetries == 2
MaxMeshExtent == 7
MaxStencilLen == 5
MaxVertices == 6
MaxVariations == 5
MaxDenominator == 4
MaxFiles == 3
MaxFileVertices == 2
MaxSeconds == 10
MaxImageSide == 10

Extents == 1..MaxExtent
Spacings == 1..MaxSpacing
Corners == (0 - MaxCorner)..MaxCorner

----------------------------------------------------------------------------
(* Helpers *)

\* ceil(a / b) for b > 0
CeilDiv(a, b) == 0 - ((0 - a) \div b)

\* numpy.arange(start, stop, step) for step > 0:
\* ceil((stop - start)/step) values start + i*step, none when that is <= 0
ArangeFloor(start, stop, step) ==
    LET n == (stop - start) \div step
        len == IF n > 0 THEN n ELSE 0
    IN  [i \in 1..len |-> start + (i - 1) * step]

ArangeInclusive(start, stop, step) ==
    LET n == ((stop - start) \div step) + 1
        len == IF n > 0 THEN n ELSE 0
    IN  [i \in 1..len |-> start + (i - 1) * step]

Arange(start, stop, step) ==
    LET n == CeilDiv(stop - start, step)
        len == IF n > 0 THEN n ELSE 0
    IN  [i \in 1..len |-> start + (i - 1) * step]

\* x - width/2, stored doubled
CentreNone(x, w) == 2 * x

Centre(x, w) == 2 * x - w

\* for x in xs: for y in ys: the pairs (x, y) in the order of the appends
Grid(xs, ys) ==
    LET nx == Len(xs)
        ny == Len(ys)
    IN  [k \in 1..(nx * ny) |-> <<xs[((k - 1) \div ny) + 1], ys[((k - 1) % ny) + 1]>>]

CentredHole(x, y) == <<Centre(x, width), Centre(y, length), 0>>

PlainHole(x, y) == <<x, y>>

----------------------------------------------------------------------------
(* State of the parts that are not running *)

NoCall == [called |-> FALSE]

LayoutIdle ==
    /\ text = <<>>
    /\ text_height = 0
    /\ max_width = 0
    /\ top_margin = 0
    /\ side_margin = 0
    /\ words = <<>>
    /\ word_idx = 1
    /\ lines = <<>>
    /\ current_line = <<>>
    /\ current_width = 0
    /\ plane_width = 0
    /\ plane_height = 0
    /\ word_positions = <<>>
    /\ seen = NoCall

InputIdle ==
    /\ params = <<>>
    /\ entry = ""
    /\ printed = ""
    /\ retries = 0

NoMesh == [kind |-> "none", holes |-> <<>>, empty |-> TRUE]

MeshIdle ==
    /\ hole_idx = 1
    /\ ms = <<>>
    /\ result_mesh = NoMesh
    /\ tmp_live = {}
    /\ failed_files = {}
    /\ io_failed = FALSE
    /\ booleans = 0
    /\ outcomes = <<>>

MainIdle ==
    /\ exit_status = 0 - 1
    /\ saved = <<>>
    /\ shown = {}
    /\ raised = ""
    /\ wall_meshes = <<>>

StencilIdle ==
    /\ word_log = <<>>
    /\ cuts = <<>>
    /\ font_path = ""

HelperIdle ==
    /\ args = <<>>
    /\ locals = <<>>

SimplifyIdle ==
    /\ percentage = 0
    /\ vertex_count = 0
    /\ target_count = 0
    /\ io_log = <<>>

GridIdle ==
    /\ width = 0
    /\ length = 0
    /\ hole_spacing = 0
    /\ min_x = 0
    /\ max_x = 0
    /\ min_y = 0
    /\ max_y = 0
    /\ x_positions = <<>>
    /\ y_positions = <<>>
    /\ hole_positions = <<>>

----------------------------------------------------------------------------
(* Grid placement *)

InitGrid ==
    /\ pc = "start"
    /\ fn \in {"create_airflow_mesh", "add_airflow_holes"}
    /\ width \in Extents
    /\ length \in Extents
    /\ hole_spacing \in Spacings
    /\ IF fn = "add_airflow_holes"
          THEN /\ min_x \in Corners
               /\ min_y \in Corners
          ELSE /\ min_x = 0
               /\ min_y = 0
    /\ max_x = min_x + width
    /\ max_y = min_y + length
    /\ x_positions = <<>>
    /\ y_positions = <<>>
    /\ hole_positions = <<>>
    /\ LayoutIdle
    /\ InputIdle
    /\ MeshIdle
    /\ MainIdle
    /\ StencilIdle
    /\ HelperIdle
    /\ SimplifyIdle

\* 3d-mesh/airflow.py create_airflow_mesh, "Calculating hole positions"
CalcHolePositions ==
    /\ pc = "start"
    /\ fn = "create_airflow_mesh"
    /\ LET margin == hole_spacing
           xs == Arange(margin, width - margin, hole_spacing)
           ys == Arange(margin, length - margin, hole_spacing)
       IN  /\ x_positions' = xs
           /\ y_positions' = ys
           /\ hole_positions' = [k \in DOMAIN Grid(xs, ys) |->
                                   CentredHole(Grid(xs, ys)[k][1], Grid(xs, ys)[k][2])]
    /\ pc' = "positions"
    /\ UNCHANGED <<fn, width, length, hole_spacing, min_x, max_x, min_y, max_y>>
    /\ UNCHANGED <<layoutVars, inputVars>>
    /\ UNCHANGED <<meshVars, mainVars, stencilVars, simplifyVars, helperVars>>

\* printing/create_airflow.py add_airflow_holes, hole grid from the bounding box
BBoxHolePositions ==
    /\ pc = "start"
    /\ fn = "add_airflow_holes"
    /\ LET xs == Arange(min_x + hole_spacing, max_x - hole_spacing, hole_spacing)
           ys == Arange(min_y + hole_spacing, max_y - hole_spacing, hole_spacing)
       IN  /\ x_positions' = xs
           /\ y_positions' = ys
           /\ hole_positions' = [k \in DOMAIN Grid(xs, ys) |->
                                   PlainHole(Grid(xs, ys)[k][1], Grid(xs, ys)[k][2])]
    /\ pc' = "positions"
    /\ UNCHANGED <<fn, width, length, hole_spacing, min_x, max_x, min_y, max_y>>
    /\ UNCHANGED <<layoutVars, inputVars>>
    /\ UNCHANGED <<meshVars, mainVars, stencilVars, simplifyVars, helperVars>>

NextGrid ==
    \/ CalcHolePositions
    \/ BBoxHolePositions

SpecGrid == InitGrid /\ [][NextGrid]_vars

----------------------------------------------------------------------------
(* Grid placement: claims *)

\* the multiples of s that lie strictly below w - s
GridCoords(w, s) == {x \in 1..w : x % s = 0 /\ x < w - s}

ExpectedHoles ==
    {<<2 * x - width, 2 * y - length>> :
        x \in GridCoords(width, hole_spacing), y \in GridCoords(length, hole_spacing)}

PlanarHoles == {<<hole_positions[k][1], hole_positions[k][2]>> : k \in DOMAIN hole_positions}

Computed3d == pc = "positions" /\ fn = "create_airflow_mesh"

C2_EmptyGrid ==
    (pc = "positions"
        /\ (max_x - min_x <= 2 * hole_spacing \/ max_y - min_y <= 2 * hole_spacing))
    => hole_positions = <<>>

\* the degenerate case happened in add_airflow_holes, on the other axis
C2_Witness ==
    /\ pc = "positions"
    /\ fn = "add_airflow_holes"
    /\ max_y - min_y = 2 * hole_spacing
    /\ max_x - min_x > 2 * hole_spacing
    /\ min_x # 0
    /\ x_positions # <<>>
    /\ hole_positions = <<>>

\* C3 as stated: W=20, L=20, S=5 gives exactly one hole, at (0,0).
C3_OneHoleAtOrigin ==
    (Computed3d /\ width = 20 /\ length = 20 /\ hole_spacing = 5)
    => PlanarHoles = {<<0, 0>>} /\ Len(hole_positions) = 1

\* C3 (amended): W=20, L=20, S=5 gives exactly four holes, at (-5,-5), (-5,0),
\* (0,-5) and (0,0) after centring (x, y range over {5, 10}); coordinates are
\* doubled here.
C3_FourHoles ==
    (Computed3d /\ width = 20 /\ length = 20 /\ hole_spacing = 5)
    => /\ x_positions = <<5, 10>>
       /\ y_positions = <<5, 10>>
       /\ Len(hole_positions) = 4
       /\ PlanarHoles = {<<0 - 10, 0 - 10>>, <<0 - 10, 0>>, <<0, 0 - 10>>, <<0, 0>>}

C3_Witness ==
    /\ Computed3d
    /\ width = 20
    /\ length = 20
    /\ hole_spacing = 5
    /\ <<0, 0>> \in PlanarHoles

----------------------------------------------------------------------------
(* Greedy line-wrap layout: calculate_text_layout                          *)
(* (printing/stencil.py and printing/text_stencil.py, identical bodies).   *)
(* text_height, max_width and the margins are integers; every width,       *)
(* offset and height derived from them is kept in tenths, so that the      *)
(* factors 0.6, 0.3 and 0.5 are exact.                                     *)

Chars == {"A", "B", " "}

ExampleText == <<"A", " ", "B", "B", " ", "C", "C", "C">>

TextsOver(chars, n) == UNION {[1..k -> chars] : k \in 0..n}

Texts == TextsOver(Chars, MaxTextLen) \cup {ExampleText}

Heights == {1, 10}

MaxWidths == {1, 2, 3, 100}

TopMargins == {0, 2}

SideMargins == {0, 1}

\* str.split(): maximal runs of non-blank characters, in order
RECURSIVE SplitFrom(_, _, _, _)
SplitFrom(t, i, cur, out) ==
    IF i > Len(t)
        THEN IF cur = <<>> THEN out ELSE Append(out, cur)
        ELSE IF t[i] = " "
                THEN SplitFrom(t, i + 1, <<>>, IF cur = <<>> THEN out ELSE Append(out, cur))
                ELSE SplitFrom(t, i + 1, Append(cur, t[i]), out)

Split(t) == SplitFrom(t, 1, <<>>, <<>>)

\* available_width = max_width - 2 * side_margin
available_width == 10 * (max_width - 2 * side_margin)

\* word_spacing = text_height * 0.3
word_spacing == text_height * 3

\* line_spacing = text_height * 0.5
LineSpacingAsWordSpacing == text_height * 3

line_spacing == text_height * 5

\* word_width = len(word) * text_height * 0.6
WordWidthFull(word) == Len(word) * text_height * 10

WordWidth(word) == Len(word) * text_height * 6

\* current_width = 0 at the start of a call
KeptWidth == current_width

InitialWidth == 0

\* the call: bind the arguments, split the text, initialise the locals
LayoutCall(t, h, mw, tm, sm) ==
    /\ pc = "idle"
    /\ text' = t
    /\ text_height' = h
    /\ max_width' = mw
    /\ top_margin' = tm
    /\ side_margin' = sm
    /\ words' = Split(t)
    /\ word_idx' = 1
    /\ lines' = <<>>
    /\ current_line' = <<>>
    /\ current_width' = InitialWidth
    /\ pc' = "packing"
    /\ UNCHANGED <<inputVars, fn, gridVars, layoutResult>>
    /\ UNCHANGED <<meshVars, mainVars, stencilVars, simplifyVars, helperVars>>

\* the new running width when a word is appended to the current line
WidthNoSpacing(w) == current_width + WordWidth(w)

WidthAfterAppend(w) == current_width + WordWidth(w) + word_spacing

\* the line state left by a word that is too long while the line is empty
LongWordJoins(w) == [lines |-> lines, current_line |-> <<w>>, current_width |-> 0]

LongWordAlone(w) == [lines |-> Append(lines, <<w>>), current_line |-> <<>>, current_width |-> 0]

\* one iteration of "for word in words"
PackWord ==
    /\ pc = "packing"
    /\ word_idx <= Len(words)
    /\ LET word == words[word_idx]
           word_width == WordWidth(word)
       IN  IF current_width + word_width <= available_width
              THEN /\ current_line' = Append(current_line, word)
                   /\ current_width' = WidthAfterAppend(word)
                   /\ lines' = lines
              ELSE IF current_line # <<>>
                      THEN /\ lines' = Append(lines, current_line)
                           /\ current_line' = <<word>>
                           /\ current_width' = word_width + word_spacing
                      ELSE /\ lines' = LongWordAlone(word).lines
                           /\ current_line' = LongWordAlone(word).current_line
                           /\ current_width' = LongWordAlone(word).current_width
    /\ word_idx' = word_idx + 1
    /\ UNCHANGED <<inputVars, pc, fn, gridVars, layoutArgs, words, layoutResult, seen>>
    /\ UNCHANGED <<meshVars, mainVars, stencilVars, simplifyVars, helperVars>>

\* plane_height = len(lines) * text_height + (len(lines) - 1) * line_spacing + 2 * top_margin
PlaneHeightClamped(n) ==
    n * text_height * 10 + (IF n > 0 THEN (n - 1) * line_spacing ELSE 0) + 2 * top_margin * 10

PlaneHeight(n) == n * text_height * 10 + (n - 1) * line_spacing + 2 * top_margin * 10

\* the placements of one line: x_offset starts at side_margin and advances by
\* word_width + word_spacing
RECURSIVE LinePositions(_, _, _, _, _)
LinePositions(line, k, x_offset, y_offset, line_idx) ==
    IF k > Len(line)
        THEN <<>>
        ELSE <<[word |-> line[k], x |-> x_offset, y |-> y_offset, line |-> line_idx]>>
             \o LinePositions(line, k + 1, x_offset + WordWidth(line[k]) + word_spacing,
                              y_offset, line_idx)

\* for line_idx, line in enumerate(lines): y_offset advances by text_height + line_spacing
RECURSIVE AllPositions(_, _, _)
AllPositions(ls, k, y_offset) ==
    IF k > Len(ls)
        THEN <<>>
        ELSE LinePositions(ls[k], 1, side_margin * 10, y_offset, k - 1)
             \o AllPositions(ls, k + 1, y_offset + text_height * 10 + line_spacing)

\* "if current_line: lines.append(current_line)"
FlushNothing(ls, cl) == ls

FlushLine(ls, cl) == IF cl # <<>> THEN Append(ls, cl) ELSE ls

\* after the loop: flush the current line, compute the dimensions and the positions
FinishLayout ==
    /\ pc = "packing"
    /\ word_idx > Len(words)
    /\ LET final == FlushLine(lines, current_line)
       IN  /\ lines' = final
           /\ plane_width' = max_width * 10
           /\ plane_height' = PlaneHeight(Len(final))
           /\ word_positions' = AllPositions(final, 1, top_margin * 10)
    /\ pc' = "returned"
    /\ UNCHANGED <<inputVars, fn, gridVars, layoutArgs, words, word_idx, current_line, current_width, seen>>
    /\ UNCHANGED <<meshVars, mainVars, stencilVars, simplifyVars, helperVars>>

InitLayout ==
    /\ pc = "idle"
    /\ fn = "calculate_text_layout"
    /\ GridIdle
    /\ LayoutIdle
    /\ InputIdle
    /\ MeshIdle
    /\ MainIdle
    /\ StencilIdle
    /\ HelperIdle
    /\ SimplifyIdle

CallAny ==
    /\ pc = "idle"
    /\ \E t \in Texts, h \in Heights, mw \in MaxWidths, tm \in TopMargins, sm \in SideMargins :
            LayoutCall(t, h, mw, tm, sm)
    /\ UNCHANGED seen

NextLayout ==
    \/ CallAny
    \/ PackWord
    \/ FinishLayout

SpecLayout == InitLayout /\ [][NextLayout]_vars

----------------------------------------------------------------------------
(* Repeated calls of calculate_text_layout.  seen remembers the arguments  *)
(* and the result of one earlier call, and how many calls followed it.     *)

RepeatTexts == TextsOver({"A", " "}, MaxRepeatLen)

RepeatWidths == {1, 2}

CallRepeat ==
    /\ pc = "idle"
    /\ \E t \in RepeatTexts, mw \in RepeatWidths :
            LayoutCall(t, 1, mw, 0, 0)
    /\ seen' = IF seen.called
                  THEN [seen EXCEPT !.later = IF @ < 2 THEN @ + 1 ELSE @]
                  ELSE seen

Remember ==
    /\ pc = "returned"
    /\ ~seen.called
    /\ seen' = [called |-> TRUE, args |-> layoutArgs, result |-> layoutResult, later |-> 0]
    /\ UNCHANGED <<inputVars, pc, fn, gridVars, layoutArgs, layoutLocals, layoutResult>>
    /\ UNCHANGED <<meshVars, mainVars, stencilVars, simplifyVars, helperVars>>

\* the caller takes the returned tuple
ReturnToCaller ==
    /\ pc = "returned"
    /\ pc' = "idle"
    /\ plane_width' = 0
    /\ plane_height' = 0
    /\ word_positions' = <<>>
    /\ UNCHANGED <<inputVars, fn, gridVars, layoutArgs, layoutLocals, seen>>
    /\ UNCHANGED <<meshVars, mainVars, stencilVars, simplifyVars, helperVars>>

NextRepeat ==
    \/ CallRepeat
    \/ PackWord
    \/ FinishLayout
    \/ Remember
    \/ ReturnToCaller

SpecRepeat == InitLayout /\ [][NextRepeat]_vars

----------------------------------------------------------------------------
(* Layout: claims *)

\* the quantities of the claims, written out from the arguments
EstWidth(word) == Len(word) * text_height * 6

Spacing == text_height * 3

Avail == 10 * (max_width - 2 * side_margin)

RECURSIVE LineLoad(_)
LineLoad(line) ==
    IF line = <<>> THEN 0 ELSE EstWidth(Head(line)) + Spacing + LineLoad(Tail(line))

TooLong(word) == EstWidth(word) > Avail

\* the lines as the result shows them
ResultLineNumbers == {word_positions[i].line : i \in DOMAIN word_positions}

NumLines == Cardinality(ResultLineNumbers)

PlacementsOfLine(k) == SelectSeq(word_positions, LAMBDA p : p.line = k)

WordsOfLine(k) == [i \in DOMAIN PlacementsOfLine(k) |-> PlacementsOfLine(k)[i].word]

\* the lines under construction, the one being filled included
OpenLines == IF current_line # <<>> THEN Append(lines, current_line) ELSE lines

\* one loop iteration: the word joins the current line exactly when it fits
\* behind the words already there, and otherwise opens a line of its own
C4_Step ==
    (pc = "packing" /\ word_idx <= Len(words) /\ word_idx' = word_idx + 1) =>
        LET word == words[word_idx]
            fits == LineLoad(current_line) + EstWidth(word) <= Avail
        IN  /\ fits <=> (current_line' = Append(current_line, word) /\ lines' = lines)
            /\ ~fits => OpenLines' = Append(OpenLines, <<word>>)

\* in the result, a word shares the line of its predecessor only if it fitted
\* there, and the first word of a later line did not fit on the line before
C4_Result ==
    pc = "returned" =>
        \A i \in DOMAIN word_positions :
            LET p == word_positions[i]
                before == SelectSeq(SubSeq(word_positions, 1, i - 1),
                                    LAMBDA q : q.line = p.line)
                load == LineLoad([j \in DOMAIN before |-> before[j].word])
            IN  /\ before # <<>> => load + EstWidth(p.word) <= Avail
                /\ (before = <<>> /\ p.line > 0) =>
                       LineLoad(WordsOfLine(p.line - 1)) + EstWidth(p.word) > Avail

\* C4: words are packed greedily: a word is appended to the current line
\* exactly when the widths plus spacings of the words on the line plus its own
\* width are within maxWidth - 2*sideMargin, else it starts a new line; so the
\* first word of every later line did not fit at the end of the line before.
C4_Greedy == [][C4_Step]_vars /\ []C4_Result

\* a wrapped result: a line of two words and a further line, no word too long
C4_Witness ==
    /\ pc = "returned"
    /\ NumLines = 2
    /\ \E k \in ResultLineNumbers : Len(PlacementsOfLine(k)) = 2
    /\ \A i \in DOMAIN words : ~TooLong(words[i])

\* C5: every word wider than the available width is alone on its line, kept
\* whole, wherever it stands in the text, and the layout never gets stuck.
C5_LongWordAlone ==
    /\ pc = "returned" =>
          /\ Len(word_positions) = Len(Split(text))
          /\ \A i \in DOMAIN word_positions :
                TooLong(Split(text)[i]) =>
                    /\ word_positions[i].word = Split(text)[i]
                    /\ \A j \in DOMAIN word_positions :
                          j # i => word_positions[j].line # word_positions[i].line
    /\ pc = "packing" => ENABLED (PackWord \/ FinishLayout)

\* a too-long word between two words that fit
C5_Witness ==
    /\ pc = "returned"
    /\ Len(words) >= 3
    /\ \E i \in 2..(Len(words) - 1) :
          /\ TooLong(words[i])
          /\ ~TooLong(words[i - 1])
          /\ ~TooLong(words[i + 1])

\* C6: the returned height is lines*textHeight + (lines-1)*lineSpacing +
\* 2*topMargin with lineSpacing = textHeight*0.5, also for lines = 0 (tenths).
C6_Height ==
    pc = "returned" =>
        plane_height = NumLines * text_height * 10
                         + (NumLines - 1) * (text_height * 5)
                         + 2 * top_margin * 10

\* a text without words has been laid out
C6_Witness ==
    /\ pc = "returned"
    /\ text # <<>>
    /\ NumLines = 0
    /\ top_margin > 0
    /\ plane_height = 2 * top_margin * 10 - text_height * 5

RECURSIVE JoinedWidth(_)
JoinedWidth(ws) ==
    IF ws = <<>> THEN 0
    ELSE IF Len(ws) = 1 THEN EstWidth(ws[1])
    ELSE EstWidth(Head(ws)) + Spacing + JoinedWidth(Tail(ws))

IsExampleCall ==
    /\ text = ExampleText
    /\ text_height = 10
    /\ max_width = 100
    /\ top_margin = 0
    /\ side_margin = 0

\* C7: "A BB CCC" with textHeight 10, maxWidth 100 and no margins has word
\* widths 6, 12, 18, spacing 3, all words on line 0 at x = 0, 9, 24 and height
\* 10 (here in tenths); and whenever the words joined by single spacings fit
\* in the available width there is exactly one line.
C7_Example ==
    /\ (pc = "returned" /\ IsExampleCall) =>
          /\ word_positions =
                << [word |-> <<"A">>, x |-> 0, y |-> 0, line |-> 0],
                   [word |-> <<"B", "B">>, x |-> 90, y |-> 0, line |-> 0],
                   [word |-> <<"C", "C", "C">>, x |-> 240, y |-> 0, line |-> 0] >>
          /\ plane_height = 100
          /\ plane_width = 1000
    /\ (pc = "returned" /\ words # <<>> /\ JoinedWidth(words) <= Avail) =>
          ResultLineNumbers = {0}

C7_Witness ==
    /\ pc = "returned"
    /\ IsExampleCall
    /\ Len(word_positions) = 3
    /\ JoinedWidth(words) = 420

\* C8: a call returns the same (width, height, word_positions) as an earlier
\* call with the same arguments, whatever was called in between.
C8_Deterministic ==
    (pc = "returned" /\ seen.called /\ seen.args = layoutArgs)
    => layoutResult = seen.result

\* the remembered call, another call, and then the same call again
C8_Witness ==
    /\ pc = "returned"
    /\ seen.called
    /\ seen.later = 2
    /\ seen.args = layoutArgs
    /\ Len(word_positions) >= 2

----------------------------------------------------------------------------
(* The copy of calculate_text_layout in printing/text_stencil.py, written  *)
(* as a function of its arguments: the packing loop, the flush, the        *)
(* rectangle dimensions and the positions.  Numbers are in tenths as       *)
(* above.                                                                  *)

\* one iteration of "for word in words" on the state of the three locals
RectangleStepNoFlush(st, word, h, avail) ==
    IF st.current_width + Len(word) * h * 6 <= avail
       THEN [lines |-> st.lines,
             current_line |-> Append(st.current_line, word),
             current_width |-> st.current_width + Len(word) * h * 6 + h * 3]
       ELSE [lines |-> st.lines,
             current_line |-> <<word>>,
             current_width |-> Len(word) * h * 6 + h * 3]

RectangleStep(st, word, h, avail) ==
    IF st.current_width + Len(word) * h * 6 <= avail
       THEN [lines |-> st.lines,
             current_line |-> Append(st.current_line, word),
             current_width |-> st.current_width + Len(word) * h * 6 + h * 3]
       ELSE IF st.current_line # <<>>
               THEN [lines |-> Append(st.lines, st.current_line),
                     current_line |-> <<word>>,
                     current_width |-> Len(word) * h * 6 + h * 3]
               ELSE [lines |-> Append(st.lines, <<word>>),
                     current_line |-> <<>>,
                     current_width |-> 0]

\* the loop over words[k..], then "if current_line: lines.append(current_line)"
RECURSIVE RectangleLines(_, _, _, _, _)
RectangleLines(ws, k, st, h, avail) ==
    IF k > Len(ws)
       THEN (IF st.current_line # <<>> THEN Append(st.lines, st.current_line) ELSE st.lines)
       ELSE RectangleLines(ws, k + 1, RectangleStep(st, ws[k], h, avail), h, avail)

\* rectangle_height = len(lines) * text_height + (len(lines) - 1) * line_spacing
\*                    + 2 * top_margin
rectangle_height(n, h, tm) == n * h * 10 + (n - 1) * h * 5 + 2 * tm * 10

\* "for word in line": x_offset advances by word_width + word_spacing
RECURSIVE RectangleLine(_, _, _, _, _, _)
RectangleLine(line, k, x_offset, y_offset, line_idx, h) ==
    IF k > Len(line)
       THEN <<>>
       ELSE <<[word |-> line[k], x |-> x_offset, y |-> y_offset, line |-> line_idx]>>
            \o RectangleLine(line, k + 1, x_offset + Len(line[k]) * h * 6 + h * 3,
                             y_offset, line_idx, h)

\* "for line_idx, line in enumerate(lines)": y_offset advances by
\* text_height + line_spacing
RECURSIVE RectanglePositions(_, _, _, _, _)
RectanglePositions(ls, k, y_offset, h, sm) ==
    IF k > Len(ls)
       THEN <<>>
       ELSE RectangleLine(ls[k], 1, sm * 10, y_offset, k - 1, h)
            \o RectanglePositions(ls, k + 1, y_offset + h * 10 + h * 5, h, sm)

\* text_stencil.py calculate_text_layout: the returned triple
RectangleLayout(t, h, mw, tm, sm) ==
    LET ls == RectangleLines(Split(t), 1,
                             [lines |-> <<>>, current_line |-> <<>>, current_width |-> 0],
                             h, 10 * (mw - 2 * sm))
    IN  <<mw * 10, rectangle_height(Len(ls), h, tm), RectanglePositions(ls, 1, tm * 10, h, sm)>>

----------------------------------------------------------------------------
(* Layout: further claims *)

\* C23: the two copies of calculate_text_layout return the same width, the
\* same height and the same sequence of placements for every text,
\* textHeight, maxWidth, topMargin and sideMargin.
C23_CopiesEquivalent ==
    (fn = "calculate_text_layout" /\ pc = "returned") =>
        <<plane_width, plane_height, word_positions>>
            = RectangleLayout(text, text_height, max_width, top_margin, side_margin)

\* both copies laid out a text with a word that is too long and a wrapped line
C23_Witness ==
    /\ fn = "calculate_text_layout"
    /\ pc = "returned"
    /\ NumLines >= 3
    /\ \E i \in DOMAIN words : TooLong(words[i])
    /\ Len(RectangleLayout(text, text_height, max_width, top_margin, side_margin)[3]) >= 3

PlacedWords == [i \in DOMAIN word_positions |-> word_positions[i].word]

\* C25: calculate_text_layout neither loses, duplicates nor reorders words:
\* the words of the placements are text.split() in order, one placement per
\* word, no line is empty, and the line indices start at 0, never decrease
\* and never skip a value.
C25_WordsKept ==
    (fn = "calculate_text_layout" /\ pc = "returned") =>
        /\ PlacedWords = Split(text)
        /\ Len(word_positions) = Len(Split(text))
        /\ \A k \in DOMAIN lines : lines[k] # <<>>
        /\ word_positions # <<>> => word_positions[1].line = 0
        /\ \A i \in 1..(Len(word_positions) - 1) :
              word_positions[i + 1].line \in
                  {word_positions[i].line, word_positions[i].line + 1}
        /\ ResultLineNumbers = 0..(Len(lines) - 1)

\* three words, the last of them on a line flushed after the loop
C25_Witness ==
    /\ fn = "calculate_text_layout"
    /\ pc = "returned"
    /\ Len(Split(text)) = 3
    /\ NumLines = 2
    /\ current_line # <<>>
    /\ word_positions[3].line = 1

\* C26: every line holding two or more words fits horizontally: its first
\* word starts at sideMargin, each next word at the previous x plus the
\* previous width plus the word spacing, and the right edge of its last word
\* is at most maxWidth - sideMargin; only a single-word line can go past it.
C26_LinesFit ==
    (fn = "calculate_text_layout" /\ pc = "returned") =>
        \A k \in ResultLineNumbers :
            LET ps == PlacementsOfLine(k)
            IN  /\ ps[1].x = 10 * side_margin
                /\ \A i \in 1..(Len(ps) - 1) :
                      ps[i + 1].x = ps[i].x + EstWidth(ps[i].word) + Spacing
                /\ Len(ps) >= 2 =>
                      ps[Len(ps)].x + EstWidth(ps[Len(ps)].word)
                          <= 10 * (max_width - side_margin)

\* a line of three words behind a side margin
C26_Witness ==
    /\ fn = "calculate_text_layout"
    /\ pc = "returned"
    /\ side_margin > 0
    /\ \E k \in ResultLineNumbers :
          /\ Len(PlacementsOfLine(k)) >= 3
          /\ PlacementsOfLine(k)[3].x > PlacementsOfLine(k)[2].x

LineGap == text_height * 5

\* C27: for a text with at least one word every word of line k has
\* y = topMargin + k*(textHeight + lineSpacing), the bottom of the last line
\* is the returned height minus topMargin, and the height is at least
\* textHeight + 2*topMargin.
C27_VerticalPlacement ==
    (fn = "calculate_text_layout" /\ pc = "returned" /\ Split(text) # <<>>) =>
        /\ \A i \in DOMAIN word_positions :
              word_positions[i].y =
                  10 * top_margin + word_positions[i].line * (10 * text_height + LineGap)
        /\ word_positions[Len(word_positions)].y + 10 * text_height
              = plane_height - 10 * top_margin
        /\ plane_height >= 10 * text_height + 2 * 10 * top_margin

\* several lines below a top margin
C27_Witness ==
    /\ fn = "calculate_text_layout"
    /\ pc = "returned"
    /\ top_margin > 0
    /\ NumLines >= 3
    /\ word_positions[Len(word_positions)].y > 10 * top_margin

----------------------------------------------------------------------------
(* Interactive prompts: get_user_input of the printing scripts             *)
(* (create_airflow.py, create_airflow_box.py, print_tile.py, stencil.py)   *)
(* and of 3d-mesh/airflow.py with its main.  Numbers are kept in tenths.   *)

PrintingScripts == {"create_airflow", "create_airflow_box", "print_tile"}

Scripts == PrintingScripts \cup {"airflow"}

\* the prompts of each get_user_input, in order
PromptsOf(f) ==
    CASE f = "create_airflow" ->
            <<"width", "length", "thickness", "hole_radius", "hole_spacing", "output_file">>
      [] f = "create_airflow_box" ->
            <<"width", "length", "height", "thickness", "hole_radius", "hole_spacing",
              "output_prefix", "wall_type">>
      [] f = "print_tile" ->
            <<"width", "length", "height", "output_filename">>
      [] f = "airflow" ->
            <<"width", "length", "thickness", "hole_diameter", "hole_spacing",
              "output_file", "format">>
      [] f \in {"stencil", "text_stencil"} ->
            <<"text", "text_height", "max_width", "top_margin", "side_margin",
              "font_path", "output_filename">>

NumericPrompts ==
    {"width", "length", "height", "thickness", "hole_radius", "hole_diameter", "hole_spacing"}

StringPrompts == {"output_file", "output_prefix", "output_filename", "format"}

\* the text after "or" / "else" of a prompt; "" when the prompt has none
DefaultOf(f, name) ==
    CASE name = "thickness" -> "1.5"
      [] name = "hole_radius" -> "1.0"
      [] name = "hole_diameter" -> "2.0"
      [] name = "hole_spacing" -> "5.0"
      [] name = "output_file" -> "airflow_mesh.stl"
      [] name = "output_prefix" -> "airflow"
      [] name = "output_filename" /\ f \notin {"stencil", "text_stencil"} -> "print_tile.stl"
      [] name = "output_filename" /\ f \in {"stencil", "text_stencil"} -> "text_stencil.stl"
      [] name = "text_height" /\ f = "stencil" -> "10.0"
      [] name = "max_width" /\ f = "stencil" -> "300.0"
      [] name \in {"top_margin", "side_margin"} -> "5.0"
      [] name = "font_path" /\ f = "stencil" -> "Harryduncan.otf"
      [] name = "font_path" /\ f # "stencil" -> "Arial"
      [] name = "format" -> "stl"
      [] name = "wall_type" -> "full"
      [] OTHER -> ""

\* the position after prompt name: the next prompt, or the return
AfterPrompt(f, name) ==
    LET ps == PromptsOf(f)
        i == CHOOSE k \in DOMAIN ps : ps[k] = name
    IN  IF i < Len(ps) THEN ps[i + 1] ELSE "returned"

\* lines the user may type at a numeric prompt
NumberEntries == {"", " ", "abc", "-5", "0", "2.5", "20"}

\* lines the user may type at a text prompt
TextEntries == {"", "out", "OBJ"}

WallEntries == {"", "full", "L-Shaped", "l", "box"}

\* float(s): the value in tenths; a ValueError for the strings outside the domain
FloatTable ==
    [s \in {"-5", "0", "2.5", "20", "1.5", "1.0", "2.0", "5.0", "10.0", "300.0"} |->
        CASE s = "-5" -> 0 - 50
          [] s = "0" -> 0
          [] s = "2.5" -> 25
          [] s = "20" -> 200
          [] s = "1.5" -> 15
          [] s = "1.0" -> 10
          [] s = "2.0" -> 20
          [] s = "5.0" -> 50
          [] s = "10.0" -> 100
          [] s = "300.0" -> 3000]

RaisesValueError(s) == s \notin DOMAIN FloatTable

Float(s) == FloatTable[s]

\* str.strip() and str.lower() on the lines of the model
Strip(s) == IF s = " " THEN "" ELSE s

Lower(s) ==
    CASE s = "OBJ" -> "obj"
      [] s = "L-Shaped" -> "l-shaped"
      [] OTHER -> s

\* input(...) or default
OrDefault(s, d) == IF s = "" THEN d ELSE s

\* "if width > 0: break"
NonNegative(v) == v >= 0

Positive(v) == v > 0

Bind(name, v) == [n \in DOMAIN params \cup {name} |-> IF n = name THEN v ELSE params[n]]

InitInput ==
    /\ fn \in Scripts
    /\ pc = PromptsOf(fn)[1]
    /\ GridIdle
    /\ LayoutIdle
    /\ InputIdle
    /\ MeshIdle
    /\ MainIdle
    /\ StencilIdle
    /\ HelperIdle
    /\ SimplifyIdle

\* one pass of a "while True: try: x = float(input(...) or default) ..." loop
AskNumber ==
    /\ fn \in PrintingScripts
    /\ pc \in NumericPrompts
    /\ \E e \in NumberEntries :
          LET s == OrDefault(e, DefaultOf(fn, pc))
          IN  /\ entry' = e
              /\ IF RaisesValueError(s)
                    THEN /\ retries < MaxRetries
                         /\ printed' = "Please enter a valid number."
                         /\ retries' = retries + 1
                         /\ UNCHANGED <<pc, params>>
                    ELSE IF Positive(Float(s))
                            THEN /\ params' = Bind(pc, Float(s))
                                 /\ pc' = AfterPrompt(fn, pc)
                                 /\ UNCHANGED <<printed, retries>>
                            ELSE /\ retries < MaxRetries
                                 /\ printed' = "must be positive. Please try again."
                                 /\ retries' = retries + 1
                                 /\ UNCHANGED <<pc, params>>
    /\ UNCHANGED <<fn, gridVars, layoutVars>>
    /\ UNCHANGED <<meshVars, mainVars, stencilVars, simplifyVars, helperVars>>

\* output_file = input(...) or default
AskText ==
    /\ fn \in PrintingScripts
    /\ pc \in StringPrompts
    /\ \E e \in TextEntries :
          /\ entry' = e
          /\ params' = Bind(pc, OrDefault(e, DefaultOf(fn, pc)))
    /\ pc' = AfterPrompt(fn, pc)
    /\ UNCHANGED <<fn, gridVars, layoutVars, printed, retries>>
    /\ UNCHANGED <<meshVars, mainVars, stencilVars, simplifyVars, helperVars>>

\* create_airflow_box.py: the wall type loop
AskWallType ==
    /\ fn = "create_airflow_box"
    /\ pc = "wall_type"
    /\ \E e \in WallEntries :
          LET wall_type == OrDefault(Lower(e), DefaultOf(fn, pc))
          IN  /\ entry' = e
              /\ IF wall_type \in {"full", "l-shaped", "l"}
                    THEN /\ params' = Bind(pc, wall_type)
                         /\ pc' = AfterPrompt(fn, pc)
                         /\ UNCHANGED <<printed, retries>>
                    ELSE /\ retries < MaxRetries
                         /\ printed' = "Please enter 'full' or 'l-shaped'."
                         /\ retries' = retries + 1
                         /\ UNCHANGED <<pc, params>>
    /\ UNCHANGED <<fn, gridVars, layoutVars>>
    /\ UNCHANGED <<meshVars, mainVars, stencilVars, simplifyVars, helperVars>>

\* 3d-mesh/airflow.py get_user_input: x = float(input(...)), or
\* x = float(x) if x.strip() else default; a ValueError leaves get_user_input
\* and is caught by main, which prints the fatal error and ends
Ask3dNumber ==
    /\ fn = "airflow"
    /\ pc \in NumericPrompts
    /\ \E e \in NumberEntries :
          LET d == DefaultOf(fn, pc)
              s == IF d # "" /\ Strip(e) = "" THEN d ELSE e
          IN  /\ entry' = e
              /\ IF RaisesValueError(s)
                    THEN /\ printed' = "Fatal error"
                         /\ pc' = "failed"
                         /\ UNCHANGED params
                    ELSE /\ params' = Bind(pc, Float(s))
                         /\ pc' = AfterPrompt(fn, pc)
                         /\ UNCHANGED printed
    /\ UNCHANGED <<fn, gridVars, layoutVars, retries>>
    /\ UNCHANGED <<meshVars, mainVars, stencilVars, simplifyVars, helperVars>>

\* 3d-mesh/airflow.py get_user_input: output file and format
Ask3dText ==
    /\ fn = "airflow"
    /\ pc \in StringPrompts
    /\ \E e \in TextEntries :
          /\ entry' = e
          /\ params' = Bind(pc, IF Strip(e) # ""
                                   THEN (IF pc = "format" THEN Lower(e) ELSE e)
                                   ELSE DefaultOf(fn, pc))
    /\ pc' = AfterPrompt(fn, pc)
    /\ UNCHANGED <<fn, gridVars, layoutVars, printed, retries>>
    /\ UNCHANGED <<meshVars, mainVars, stencilVars, simplifyVars, helperVars>>

\* 3d-mesh/airflow.py main: create_airflow_mesh(width=params['width'], ...)
MainCreateMesh ==
    /\ fn = "airflow"
    /\ pc = "returned"
    /\ width' = params["width"]
    /\ length' = params["length"]
    /\ hole_spacing' = params["hole_spacing"]
    /\ pc' = "create_airflow_mesh"
    /\ UNCHANGED <<fn, min_x, max_x, min_y, max_y, x_positions, y_positions,
                   hole_positions, layoutVars, inputVars>>
    /\ UNCHANGED <<meshVars, mainVars, stencilVars, simplifyVars, helperVars>>

NextInput ==
    \/ AskNumber
    \/ AskText
    \/ AskWallType
    \/ Ask3dNumber
    \/ Ask3dText
    \/ MainCreateMesh

SpecInput == InitInput /\ [][NextInput]_vars

----------------------------------------------------------------------------
(* Prompts: claims *)

\* lines that are not a number, and numbers that are not positive
NotANumber == {"abc", " "}

NotPositive == {"-5", "0"}

\* prompts that offer no default, where an empty line is not a number either
NoDefaultPrompts == {"width", "length", "height"}

Rejectable(e, name) ==
    \/ e \in NotANumber
    \/ e \in NotPositive
    \/ (e = "" /\ name \in NoDefaultPrompts)

NumericOf(f) == {PromptsOf(f)[k] : k \in DOMAIN PromptsOf(f)} \cap NumericPrompts

\* a prompt step of a printing script: a rejected line leaves the prompt and
\* the accepted values as they are; no step changes an accepted value
C9_Step ==
    (fn \in PrintingScripts /\ (retries' # retries \/ pc' # pc)) =>
        /\ (pc \in NumericPrompts /\ Rejectable(entry', pc)) =>
               (pc' = pc /\ params' = params)
        /\ \A n \in DOMAIN params : n \in DOMAIN params' /\ params'[n] = params[n]

\* get_user_input returns with every numeric parameter of the script > 0
C9_Return ==
    (fn \in PrintingScripts /\ pc = "returned") =>
        \A n \in NumericOf(fn) : n \in DOMAIN params /\ params[n] > 0

\* C9: in get_user_input of the printing scripts a non-numeric or non-positive
\* entry makes the same parameter be asked again, accepted values are kept,
\* and the function returns only with all numeric parameters > 0.
C9_Reprompt == [][C9_Step]_vars /\ []C9_Return

\* create_airflow.py returned after rejected entries
C9_Witness ==
    /\ fn = "create_airflow"
    /\ pc = "returned"
    /\ retries >= 2
    /\ printed = "must be positive. Please try again."
    /\ params["hole_spacing"] = 50

\* C10: in 3d-mesh/airflow.py an invalid entry for width, length, thickness,
\* hole diameter or hole spacing never ends the run and never reaches
\* create_airflow_mesh as a parameter value.
C10_NoInvalidReachesMesh ==
    fn = "airflow" =>
        /\ pc # "failed"
        /\ pc = "create_airflow_mesh" => \A n \in NumericOf(fn) : params[n] > 0

----------------------------------------------------------------------------
(* The hole loops: create_airflow_mesh (3d-mesh/airflow.py) with its       *)
(* pymeshlab MeshSet and temporary files, and add_airflow_holes            *)
(* (printing/create_airflow.py, create_airflow_box.py).  A mesh is a       *)
(* record: its kind, the holes cut into it in order, and whether it has    *)
(* no vertices.  What a library call does (export, load, unlink, boolean)  *)
(* is a choice among the outcomes the code distinguishes.                  *)

MeshExtents == 1..MaxMeshExtent

MeshSpacings == {2}

BaseBox == [kind |-> "box", holes |-> <<>>, empty |-> FALSE]

CylinderMesh == [kind |-> "cylinder", holes |-> <<>>, empty |-> FALSE]

InitMesh ==
    /\ pc = "start"
    /\ fn \in {"create_airflow_mesh", "add_airflow_holes"}
    /\ width \in MeshExtents
    /\ length \in MeshExtents
    /\ hole_spacing \in MeshSpacings
    /\ IF fn = "add_airflow_holes"
          THEN /\ min_x \in Corners
               /\ min_y \in Corners
          ELSE /\ min_x = 0
               /\ min_y = 0
    /\ max_x = min_x + width
    /\ max_y = min_y + length
    /\ x_positions = <<>>
    /\ y_positions = <<>>
    /\ hole_positions = <<>>
    /\ LayoutIdle
    /\ InputIdle
    /\ MeshIdle
    /\ MainIdle
    /\ StencilIdle
    /\ HelperIdle
    /\ SimplifyIdle

\* outcomes of "NamedTemporaryFile; export; load_new_mesh; os.unlink"
IoFailures == {"export_fail", "load_fail", "unlink_fail"}

IoOutcomes == {"ok"} \cup IoFailures

\* os.unlink(tmp_file_path)
UnlinkNothing(files, f) == files

Unlink(files, f) == files \ {f}

\* a temporary file whose unlink is never reached
LeakCleaned(files, f) == files

Leak(files, f) == files \cup {f}

\* the temporary files after one create / export / load / unlink sequence
FilesAfter(files, f, o) ==
    IF o \in IoFailures THEN Leak(files, f) ELSE Unlink(files \cup {f}, f)

FailedAfter(failed, f, o) ==
    IF o \in {"export_fail", "load_fail"} THEN failed \cup {f} ELSE failed

\* "Loading base mesh into pymeshlab": an exception is printed and re-raised
LoadBaseMesh ==
    /\ pc = "positions"
    /\ fn = "create_airflow_mesh"
    /\ \E o \in IoOutcomes :
          /\ tmp_live' = FilesAfter(tmp_live, <<0, "base">>, o)
          /\ failed_files' = FailedAfter(failed_files, <<0, "base">>, o)
          /\ io_failed' = (io_failed \/ o \in IoFailures)
          /\ ms' = IF o \in {"ok", "unlink_fail"} THEN <<BaseBox>> ELSE <<>>
          /\ pc' = IF o = "ok" THEN "holes" ELSE "raised"
    /\ UNCHANGED <<fn, gridVars, layoutVars, inputVars, hole_idx, result_mesh, booleans,
                   outcomes, mainVars, stencilVars, simplifyVars, helperVars>>

\* what one pass of the hole loop can do
CylinderIo == {"create_fail", "export_fail", "load_fail", "unlink_fail", "empty_cylinder"}

BooleanRaised == {"boolean_raise", "boolean_raise_emptied"}

ReloadOutcomes == {"boolean_failed", "reload_export_fail", "reload_load_fail",
                   "reload_unlink_fail"}

HoleOutcomes == CylinderIo \cup BooleanRaised \cup ReloadOutcomes \cup {"cut"}

\* the boolean filter needs mesh 0 and the cylinder; it leaves vertices in
\* mesh 0 only if mesh 0 had some
Feasible(o) ==
    CASE o \in ReloadOutcomes \cup {"boolean_raise_emptied"} -> Len(ms) >= 1
      [] o = "cut" -> Len(ms) >= 1 /\ ~ms[1].empty
      [] OTHER -> TRUE

\* the outcome of the file sequence that an outcome of the pass stands for
CylinderFileOutcome(o) == IF o \in IoFailures THEN o ELSE "ok"

ReloadFileOutcome(o) ==
    CASE o = "reload_export_fail" -> "export_fail"
      [] o = "reload_load_fail" -> "load_fail"
      [] o = "reload_unlink_fail" -> "unlink_fail"
      [] OTHER -> "ok"

\* ms.clear() and the base box loaded again
ReloadedSet == <<BaseBox>>

\* the mesh set after the pass for hole position pos
MeshSetAfter(m, pos, o) ==
    CASE o \in {"create_fail", "export_fail", "load_fail", "empty_cylinder"} -> m
      [] o \in {"unlink_fail", "boolean_raise"} -> Append(m, CylinderMesh)
      [] o = "boolean_raise_emptied" -> Append([m EXCEPT ![1].empty = TRUE], CylinderMesh)
      [] o \in {"boolean_failed", "reload_unlink_fail"} -> ReloadedSet
      [] o \in {"reload_export_fail", "reload_load_fail"} -> <<>>
      [] o = "cut" -> Append([m EXCEPT ![1].holes = Append(@, pos)], CylinderMesh)

\* one pass of "for i, pos in enumerate(hole_positions, 1)"; every exception is
\* caught inside the pass and the loop continues
ProcessHole ==
    /\ pc = "holes"
    /\ fn = "create_airflow_mesh"
    /\ hole_idx <= Len(hole_positions)
    /\ \E o \in HoleOutcomes :
          /\ Feasible(o)
          /\ LET cyl == <<hole_idx, "cyl">>
                 rel == <<hole_idx, "reload">>
                 files1 == IF o = "create_fail"
                              THEN tmp_live
                              ELSE FilesAfter(tmp_live, cyl, CylinderFileOutcome(o))
                 failed1 == FailedAfter(failed_files, cyl, CylinderFileOutcome(o))
             IN  /\ tmp_live' = IF o \in ReloadOutcomes
                                   THEN FilesAfter(files1, rel, ReloadFileOutcome(o))
                                   ELSE files1
                 /\ failed_files' = IF o \in ReloadOutcomes
                                       THEN FailedAfter(failed1, rel, ReloadFileOutcome(o))
                                       ELSE failed1
          /\ io_failed' = (io_failed \/ o \in IoFailures
                             \/ ReloadFileOutcome(o) \in IoFailures)
          /\ ms' = MeshSetAfter(ms, hole_positions[hole_idx], o)
          /\ booleans' = IF o \in CylinderIo THEN booleans ELSE booleans + 1
          /\ outcomes' = Append(outcomes, o)
    /\ hole_idx' = hole_idx + 1
    /\ UNCHANGED <<pc, fn, gridVars, layoutVars, inputVars, result_mesh,
                   mainVars, stencilVars, simplifyVars, helperVars>>

\* "if ms.number_meshes() == 0 or ms.mesh(0).vertex_number() == 0"
NeedsReloadNoMeshes(m) == Len(m) = 0

NeedsReload(m) == Len(m) = 0 \/ m[1].empty

\* after the loop: the validity check with its reload (not inside a try), the
\* cleanup filters (their exceptions are caught) and the return
FinishMesh ==
    /\ pc = "holes"
    /\ fn = "create_airflow_mesh"
    /\ hole_idx > Len(hole_positions)
    /\ IF NeedsReload(ms)
          THEN \E o \in IoOutcomes :
                  /\ tmp_live' = FilesAfter(tmp_live, <<0, "final">>, o)
                  /\ failed_files' = FailedAfter(failed_files, <<0, "final">>, o)
                  /\ io_failed' = (io_failed \/ o \in IoFailures)
                  /\ ms' = IF o \in {"ok", "unlink_fail"} THEN <<BaseBox>> ELSE <<>>
                  /\ pc' = IF o = "ok" THEN "returned" ELSE "raised"
          ELSE /\ pc' = "returned"
               /\ UNCHANGED <<tmp_live, failed_files, io_failed, ms>>
    /\ UNCHANGED <<fn, gridVars, layoutVars, inputVars, hole_idx, result_mesh, booleans,
                   outcomes, mainVars, stencilVars, simplifyVars, helperVars>>

\* add_airflow_holes: result_mesh = mesh
BeginHoles ==
    /\ pc = "positions"
    /\ fn = "add_airflow_holes"
    /\ result_mesh' = BaseBox
    /\ pc' = "holes"
    /\ UNCHANGED <<fn, gridVars, layoutVars, inputVars, hole_idx, ms, tmp_live, failed_files,
                   io_failed, booleans, outcomes, mainVars, stencilVars, simplifyVars, helperVars>>

\* the mesh kept when a subtraction is invalid or raises
StartOver(m) == BaseBox

KeepMesh(m) == m

\* one pass of "for i, (x, y) in enumerate(hole_positions)": mr.boolean gives
\* a valid mesh, an invalid operation, or raises
SubtractHole ==
    /\ pc = "holes"
    /\ fn = "add_airflow_holes"
    /\ hole_idx <= Len(hole_positions)
    /\ \E o \in {"cut", "invalid", "raise"} :
          /\ result_mesh' = IF o = "cut"
                               THEN [result_mesh EXCEPT
                                        !.holes = Append(@, hole_positions[hole_idx])]
                               ELSE KeepMesh(result_mesh)
          /\ outcomes' = Append(outcomes, o)
    /\ booleans' = booleans + 1
    /\ hole_idx' = hole_idx + 1
    /\ UNCHANGED <<pc, fn, gridVars, layoutVars, inputVars, ms, tmp_live, failed_files,
                   io_failed, mainVars, stencilVars, simplifyVars, helperVars>>

\* return result_mesh
ReturnHoles ==
    /\ pc = "holes"
    /\ fn = "add_airflow_holes"
    /\ hole_idx > Len(hole_positions)
    /\ pc' = "returned"
    /\ UNCHANGED <<fn, gridVars, layoutVars, inputVars, meshVars, mainVars, stencilVars,
                   simplifyVars, helperVars>>

NextMesh ==
    \/ CalcHolePositions
    \/ BBoxHolePositions
    \/ LoadBaseMesh
    \/ ProcessHole
    \/ FinishMesh
    \/ BeginHoles
    \/ SubtractHole
    \/ ReturnHoles

SpecMesh == InitMesh /\ [][NextMesh]_vars

----------------------------------------------------------------------------
(* The word loops of the stencil scripts: create_text_stencil of           *)
(* printing/stencil.py and create_plane_with_texture of                    *)
(* printing/text_stencil.py.  What Blender does with a font, a text        *)
(* object or a boolean modifier is a choice among the outcomes the code    *)
(* distinguishes.                                                          *)

StencilTexts == TextsOver({"A", " "}, MaxStencilLen)

InitStencil ==
    /\ pc = "idle"
    /\ fn \in {"stencil", "text_stencil"}
    /\ GridIdle
    /\ LayoutIdle
    /\ InputIdle
    /\ MeshIdle
    /\ MainIdle
    /\ StencilIdle
    /\ HelperIdle
    /\ SimplifyIdle

\* create_text_stencil: calculate_text_layout(text, text_height, max_width, ...)
CallStencilLayout ==
    /\ pc = "idle"
    /\ \E t \in StencilTexts, mw \in RepeatWidths :
            LayoutCall(t, 1, mw, 0, 0)
    /\ UNCHANGED seen

\* the base plane is made and the loop over word_positions starts
CreatePlane ==
    /\ pc = "returned"
    /\ fn \in {"stencil", "text_stencil"}
    /\ pc' = "words"
    /\ word_idx' = 1
    /\ word_log' = <<>>
    /\ cuts' = <<>>
    /\ UNCHANGED <<fn, gridVars, layoutArgs, words, lines, current_line, current_width,
                   layoutResult, seen, inputVars, meshVars, mainVars, font_path, simplifyVars, helperVars>>

\* how setting the font can end: stencil.py tests os.path.exists and catches
\* every exception; text_stencil.py tries only .ttf / .otf paths
FontOutcomes(script) ==
    IF script = "stencil" THEN {"loaded", "missing", "raise"}
                          ELSE {"loaded", "not_tried", "raise"}

FontFailed(f) == f \in {"missing", "raise"}

\* the font of the text object: the default font stays when none was set
FontUsed(f) == IF f = "loaded" THEN "custom" ELSE "default"

\* create_3d_text returns None for a mesh without vertices or without faces
MeshOutcomes == {"valid", "no_vertices", "no_faces"}

\* "if word_mesh is None: ... skipping; continue"
SkipsOnFontFailure(f, m) == m # "valid" \/ FontFailed(f)

SkipsWord(f, m) == m # "valid"

\* the boolean modifier, and the rectangular hole tried when it raises
CutOutcomes == {"text", "rectangle", "failed"}

Cut(i, f, c) ==
    [idx |-> i, word |-> word_positions[i].word, shape |-> c, font |-> FontUsed(f)]

\* stencil.py: one pass of "for i, word_info in enumerate(word_positions)"
ProcessWord ==
    /\ pc = "words"
    /\ fn = "stencil"
    /\ word_idx <= Len(word_positions)
    /\ \E f \in FontOutcomes("stencil"), m \in MeshOutcomes, c \in CutOutcomes :
          IF SkipsWord(f, m)
             THEN /\ c = "failed"
                  /\ word_log' = Append(word_log, [font |-> f, mesh |-> m, cut |-> "none"])
                  /\ cuts' = cuts
             ELSE /\ word_log' = Append(word_log, [font |-> f, mesh |-> m, cut |-> c])
                  /\ cuts' = IF c = "failed" THEN cuts ELSE Append(cuts, Cut(word_idx, f, c))
    /\ word_idx' = word_idx + 1
    /\ UNCHANGED <<pc, fn, gridVars, layoutArgs, words, lines, current_line, current_width,
                   layoutResult, seen, inputVars, meshVars, mainVars, font_path, simplifyVars, helperVars>>

\* text_stencil.py: one pass of "for word_info in word_positions", which makes
\* the text object of the word
CreateTextObject ==
    /\ pc = "words"
    /\ fn = "text_stencil"
    /\ word_idx <= Len(word_positions)
    /\ \E f \in FontOutcomes("text_stencil") :
          word_log' = Append(word_log, [font |-> f, mesh |-> "valid", cut |-> "pending"])
    /\ word_idx' = word_idx + 1
    /\ UNCHANGED <<pc, fn, gridVars, layoutArgs, words, lines, current_line, current_width,
                   layoutResult, seen, inputVars, meshVars, mainVars, cuts, font_path,
                   simplifyVars, helperVars>>

\* text_stencil.py: all text objects exist, the cutting loop starts
BeginCutting ==
    /\ pc = "words"
    /\ fn = "text_stencil"
    /\ word_idx > Len(word_positions)
    /\ pc' = "cutting"
    /\ word_idx' = 1
    /\ UNCHANGED <<fn, gridVars, layoutArgs, words, lines, current_line, current_width,
                   layoutResult, seen, inputVars, meshVars, mainVars, stencilVars,
                   simplifyVars, helperVars>>

\* text_stencil.py: one pass of "for i, text_obj in enumerate(text_objects)"
CutTextObject ==
    /\ pc = "cutting"
    /\ word_idx <= Len(word_log)
    /\ \E c \in {"text", "failed"} :
          /\ word_log' = [word_log EXCEPT ![word_idx].cut = c]
          /\ cuts' = IF c = "failed"
                        THEN cuts
                        ELSE Append(cuts, Cut(word_idx, word_log[word_idx].font, c))
    /\ word_idx' = word_idx + 1
    /\ UNCHANGED <<pc, fn, gridVars, layoutArgs, words, lines, current_line, current_width,
                   layoutResult, seen, inputVars, meshVars, mainVars, font_path, simplifyVars, helperVars>>

\* return base_plane / return plane
ReturnStencil ==
    /\ \/ pc = "words" /\ fn = "stencil" /\ word_idx > Len(word_positions)
       \/ pc = "cutting" /\ word_idx > Len(word_log)
    /\ pc' = "done"
    /\ UNCHANGED <<fn, gridVars, layoutVars, inputVars, meshVars, mainVars, stencilVars,
                   simplifyVars, helperVars>>

NextStencil ==
    \/ CallStencilLayout
    \/ PackWord
    \/ FinishLayout
    \/ CreatePlane
    \/ ProcessWord
    \/ CreateTextObject
    \/ BeginCutting
    \/ CutTextObject
    \/ ReturnStencil

SpecStencil == InitStencil /\ [][NextStencil]_vars

----------------------------------------------------------------------------
(* Word loops: claims *)

CutOf(i) == {k \in DOMAIN cuts : cuts[k].idx = i}

FontLoadFailed(i) == word_log[i].font \in {"missing", "raise"}

AllWordsProcessed ==
    /\ Len(word_log) = Len(word_positions)
    /\ \A i \in DOMAIN word_log : word_log[i].cut # "pending"

\* C13 as stated: a word whose font load failed is skipped (no cut is made
\* for it) and the remaining words are still processed.
C13_FontFailureSkips ==
    pc = "done" =>
        /\ AllWordsProcessed
        /\ \A i \in DOMAIN word_log : FontLoadFailed(i) => CutOf(i) = {}

\* C13 amended: a word whose font load failed is made with the default font
\* and is still cut whenever its mesh is valid and a cut succeeds; a word is
\* skipped without a cut only when its mesh has no vertices or no faces; in
\* every case the remaining words are still processed.
C13_FontFailureContinues ==
    pc = "done" =>
        /\ AllWordsProcessed
        /\ \A i \in DOMAIN word_log :
              /\ (CutOf(i) = {}) <=>
                    (word_log[i].mesh # "valid" \/ word_log[i].cut = "failed")
              /\ FontLoadFailed(i) => \A k \in CutOf(i) : cuts[k].font = "default"
              /\ Cardinality(CutOf(i)) <= 1

\* the font load of the first word failed, the word was cut all the same and
\* the next word was processed
C13_Witness ==
    /\ pc = "done"
    /\ fn = "stencil"
    /\ Len(word_log) >= 2
    /\ word_log[1].font = "raise"
    /\ CutOf(1) # {}
    /\ word_log[2].mesh = "no_vertices"
    /\ CutOf(2) = {}

----------------------------------------------------------------------------
(* The main functions of the printing scripts: get_user_input, the mesh    *)
(* creation, save_mesh and the two exception handlers.  Whether a library  *)
(* call returns or raises is a choice.                                     *)

StencilScripts == {"stencil", "text_stencil"}

MainScripts == {"create_airflow", "create_airflow_box", "print_tile"} \cup StencilScripts

InitMain ==
    /\ fn \in MainScripts
    /\ pc = PromptsOf(fn)[1]
    /\ GridIdle
    /\ LayoutIdle
    /\ InputIdle
    /\ MeshIdle
    /\ MainIdle
    /\ StencilIdle
    /\ HelperIdle
    /\ SimplifyIdle

StencilTextEntries == {"", " ", "A B"}

StencilNumericPrompts == {"text_height", "max_width", "top_margin", "side_margin"}

StencilStringPrompts == {"font_path", "output_filename"}

FontEntries == {"", "my.ttf"}

\* stencil.py get_user_input: a blank text prints a message and the function
\* calls itself, whose result it returns
AskStencilText ==
    /\ fn \in StencilScripts
    /\ pc = "text"
    /\ \E e \in StencilTextEntries :
          /\ entry' = e
          /\ IF Strip(e) = ""
                THEN /\ retries < MaxRetries
                     /\ printed' = "Text cannot be empty. Please try again."
                     /\ retries' = retries + 1
                     /\ UNCHANGED <<pc, params>>
                ELSE /\ params' = Bind(pc, e)
                     /\ pc' = AfterPrompt(fn, pc)
                     /\ UNCHANGED <<printed, retries>>
    /\ UNCHANGED <<fn, gridVars, layoutVars>>
    /\ UNCHANGED <<meshVars, mainVars, stencilVars, simplifyVars, helperVars>>

\* "if text_height > 0" and "if max_width > 0", but "if top_margin >= 0" and
\* "if side_margin >= 0"
StencilAccepts(name, v) ==
    IF name \in {"top_margin", "side_margin"} THEN v >= 0 ELSE v > 0

\* stencil.py get_user_input: one pass of a numeric "while True" loop
AskStencilNumber ==
    /\ fn \in StencilScripts
    /\ pc \in StencilNumericPrompts
    /\ \E e \in NumberEntries :
          LET s == OrDefault(e, DefaultOf(fn, pc))
          IN  /\ entry' = e
              /\ IF RaisesValueError(s)
                    THEN /\ retries < MaxRetries
                         /\ printed' = "Please enter a valid number."
                         /\ retries' = retries + 1
                         /\ UNCHANGED <<pc, params>>
                    ELSE IF StencilAccepts(pc, Float(s))
                            THEN /\ params' = Bind(pc, Float(s))
                                 /\ pc' = AfterPrompt(fn, pc)
                                 /\ UNCHANGED <<printed, retries>>
                            ELSE /\ retries < MaxRetries
                                 /\ printed' = "Please try again."
                                 /\ retries' = retries + 1
                                 /\ UNCHANGED <<pc, params>>
    /\ UNCHANGED <<fn, gridVars, layoutVars>>
    /\ UNCHANGED <<meshVars, mainVars, stencilVars, simplifyVars, helperVars>>

\* stencil.py get_user_input: font_path = input(...) or default, and the
\* output file name
AskStencilString ==
    /\ fn \in StencilScripts
    /\ pc \in StencilStringPrompts
    /\ \E e \in (IF pc = "font_path" THEN FontEntries ELSE TextEntries) :
          /\ entry' = e
          /\ params' = Bind(pc, OrDefault(e, DefaultOf(fn, pc)))
    /\ pc' = AfterPrompt(fn, pc)
    /\ UNCHANGED <<fn, gridVars, layoutVars, printed, retries>>
    /\ UNCHANGED <<meshVars, mainVars, stencilVars, simplifyVars, helperVars>>

\* create_airflow_box.py create_wall_mesh: one of the two L-shaped pieces
WallPiece(k) == [kind |-> "l-shaped", piece |-> k]

\* create_airflow_box.py create_wall_mesh: "return [walls_mesh_1, walls_mesh_2]"
create_wall_mesh(wall_type) == <<WallPiece(1), WallPiece(2)>>

\* the file names main passes to save_mesh, in order
FilesToSave(script) ==
    IF script = "create_airflow_box"
       THEN <<"_top.stl", "_bottom.stl", "_walls_l1.stl", "_walls_l2.stl">>
       ELSE <<"output">>

\* the file names printed after the success message ("Files created:",
\* "File created:"); create_airflow.py prints none
FilesListed(script, p) ==
    CASE script = "create_airflow_box" ->
            {"_top.stl", "_bottom.stl"}
            \cup (IF p["wall_type"] = "full" THEN {"_walls.stl"}
                                           ELSE {"_walls_l1.stl", "_walls_l2.stl"})
      [] script = "create_airflow" -> {}
      [] OTHER -> {"output"}

\* the font path main hands to create_text_stencil: stencil.py assigns a
\* fixed path to font_path, text_stencil.py passes params['font_path']
FontPathPassed(script, p) ==
    IF script = "stencil" THEN "Harryduncan.otf" ELSE p["font_path"]

\* main, after get_user_input returned: the meshes are created
MainCreate ==
    /\ fn \in MainScripts
    /\ pc = "returned"
    /\ wall_meshes' = IF fn = "create_airflow_box"
                         THEN create_wall_mesh(params["wall_type"])
                         ELSE wall_meshes
    /\ font_path' = IF fn \in StencilScripts
                       THEN FontPathPassed(fn, params)
                       ELSE font_path
    /\ pc' = "created"
    /\ UNCHANGED <<fn, gridVars, layoutVars, inputVars, meshVars, exit_status, saved, shown,
                   raised, word_log, cuts, simplifyVars, helperVars>>

\* one save_mesh call that completes: "saved successfully to"
MainSave ==
    /\ fn \in MainScripts
    /\ pc = "created"
    /\ Len(saved) < Len(FilesToSave(fn))
    /\ saved' = Append(saved, FilesToSave(fn)[Len(saved) + 1])
    /\ shown' = shown \cup {"saved successfully"}
    /\ UNCHANGED <<pc, fn, gridVars, layoutVars, inputVars, meshVars, exit_status, raised,
                   wall_meshes, stencilVars, simplifyVars, helperVars>>

\* the last statements of the try block, then main returns and the
\* interpreter ends with status 0
MainSuccess ==
    /\ fn \in MainScripts
    /\ pc = "created"
    /\ Len(saved) = Len(FilesToSave(fn))
    /\ shown' = shown \cup {"created successfully"}
                      \cup FilesListed(fn, params)
    /\ exit_status' = 0
    /\ pc' = "finished"
    /\ UNCHANGED <<fn, gridVars, layoutVars, inputVars, meshVars, saved, raised,
                   wall_meshes, stencilVars, simplifyVars, helperVars>>

Exceptions == {"KeyboardInterrupt", "Exception"}

\* sys.exit(0) after a KeyboardInterrupt, sys.exit(1) after an Exception
ExitStatusAlwaysOne(e) == 1

ExitStatusOf(e) == IF e = "KeyboardInterrupt" THEN 0 ELSE 1

\* what is printed: main prints for a KeyboardInterrupt and for an Exception
\* that reaches it; save_mesh catches an Exception of the save itself
MessageFor(saving, e) ==
    IF e = "KeyboardInterrupt" THEN "Operation cancelled by user."
    ELSE IF saving THEN "Error saving mesh"
    ELSE "Error creating mesh"

\* an exception raised inside the try block of main: at a prompt, while the
\* meshes are created, or inside save_mesh
MainRaise ==
    /\ fn \in MainScripts
    /\ pc \notin {"finished", "exited"}
    /\ \E e \in Exceptions, saving \in BOOLEAN :
          /\ saving => (pc = "created" /\ Len(saved) < Len(FilesToSave(fn)))
          /\ (pc \notin {"returned", "created"}) => ~saving
          /\ raised' = e
          /\ shown' = shown \cup {MessageFor(saving, e)}
          /\ exit_status' = ExitStatusOf(e)
    /\ pc' = "exited"
    /\ UNCHANGED <<fn, gridVars, layoutVars, inputVars, meshVars, saved, wall_meshes,
                   stencilVars, simplifyVars, helperVars>>

NextMain ==
    \/ AskNumber
    \/ AskText
    \/ AskWallType
    \/ AskStencilText
    \/ AskStencilNumber
    \/ AskStencilString
    \/ MainCreate
    \/ MainSave
    \/ MainSuccess
    \/ MainRaise

SpecMain == InitMain /\ [][NextMain]_vars

----------------------------------------------------------------------------
(* Main functions: claims *)

SingleFileScripts == {"create_airflow", "print_tile", "stencil"}

Ended == pc \in {"finished", "exited"}

ErrorPrinted == shown \cap {"Error saving mesh", "Error creating mesh"} # {}

\* an exception ends the run at once, and nothing is saved afterwards
C17_Step ==
    (fn \in SingleFileScripts /\ raised' # raised) =>
        /\ pc' = "exited"
        /\ saved' = saved

C17_Result ==
    fn \in SingleFileScripts =>
        /\ (raised = "Exception") => (ErrorPrinted /\ exit_status = 1 /\ pc = "exited")
        /\ (raised = "KeyboardInterrupt") => (exit_status = 0 /\ pc = "exited")
        /\ ("created successfully" \in shown) => (saved = <<"output">> /\ raised = "")
        /\ ~Ended => exit_status = 0 - 1

\* C17: in main of create_airflow.py, print_tile.py and stencil.py an error
\* raised while creating or saving the mesh is printed and the exit status is
\* 1, a keyboard interrupt gives exit status 0, and the final success message
\* is printed only when the save completed without error.
C17_ExitBehaviour == [][C17_Step]_vars /\ []C17_Result

\* the save of stencil.py failed
C17_Witness ==
    /\ fn = "stencil"
    /\ pc = "exited"
    /\ raised = "Exception"
    /\ "Error saving mesh" \in shown
    /\ exit_status = 1
    /\ saved = <<>>
    /\ DOMAIN params = {PromptsOf("stencil")[k] : k \in 1..7}

FileNames == {"_top.stl", "_bottom.stl", "_walls.stl", "_walls_l1.stl", "_walls_l2.stl"}

\* C21: in main of create_airflow_box.py every file name listed in the final
\* "Files created" summary was passed to save_mesh earlier in the run, for
\* every accepted wall_type.
C21_ListedFilesSaved ==
    (fn = "create_airflow_box" /\ pc = "finished") =>
        \A f \in shown \cap FileNames : \E k \in DOMAIN saved : saved[k] = f

\* C22: in the stencil scripts the font path entered at the prompt (or the
\* default of the prompt on an empty line) is the font path main passes to
\* create_text_stencil.
C22_FontPathPassed ==
    (fn \in StencilScripts /\ pc \in {"created", "finished"}) =>
        font_path = params["font_path"]

FullWalls == [kind |-> "full"]

\* C18: create_wall_mesh returns the complete box walls as a single mesh for
\* wall_type "full", and the two L-shaped pieces only for "l-shaped".
C18_WallType ==
    (fn = "create_airflow_box" /\ pc = "created") =>
        /\ params["wall_type"] = "full" => wall_meshes = <<FullWalls>>
        /\ wall_meshes = <<WallPiece(1), WallPiece(2)>> => params["wall_type"] \in {"l-shaped", "l"}

----------------------------------------------------------------------------
(* Mesh simplification: model-manipulation/simplifyModel.py.  percentage   *)
(* is kept in hundredths, so 100 stands for 1.0.                           *)

SimplifyFunctions == {"simplify_mesh_with_open3d", "simplify_mesh_with_vertex_clustering"}

SimplifyPercentages == {0 - 50, 0, 1, 25, 50, 99, 100, 101, 200}

InitSimplify ==
    /\ pc = "start"
    /\ fn \in SimplifyFunctions
    /\ percentage \in SimplifyPercentages
    /\ vertex_count = 0
    /\ target_count = 0
    /\ io_log = <<>>
    /\ GridIdle
    /\ LayoutIdle
    /\ InputIdle
    /\ MeshIdle
    /\ MainIdle
    /\ StencilIdle
    /\ HelperIdle

\* 0 < percentage <= 1
PercentageAccepted(p) == 0 < p /\ p <= 100

\* "if not (0 < percentage <= 1): raise ValueError(...)"
ValidatePercentage ==
    /\ pc = "start"
    /\ fn \in SimplifyFunctions
    /\ IF PercentageAccepted(percentage)
          THEN /\ pc' = "validated"
               /\ UNCHANGED raised
          ELSE /\ pc' = "raised"
               /\ raised' = "ValueError"
    /\ UNCHANGED <<fn, gridVars, layoutVars, inputVars, meshVars, exit_status, saved, shown,
                   wall_meshes, stencilVars, simplifyVars, helperVars>>

\* o3d.io.read_triangle_mesh(mesh_url); simplify_mesh_with_open3d raises a
\* ValueError for an empty mesh
LoadMesh ==
    /\ pc = "validated"
    /\ \E n \in 0..MaxVertices :
          /\ vertex_count' = n
          /\ IF fn = "simplify_mesh_with_open3d" /\ n = 0
                THEN /\ pc' = "raised"
                     /\ raised' = "ValueError"
                ELSE /\ pc' = "loaded"
                     /\ UNCHANGED raised
    /\ io_log' = Append(io_log, "read")
    /\ UNCHANGED <<fn, gridVars, layoutVars, inputVars, meshVars, exit_status, saved, shown,
                   wall_meshes, stencilVars, percentage, target_count, helperVars>>

\* max(2, int(n * percentage)) and int(n * percentage)
TargetVertexCount(f, n, p) ==
    LET t == (n * p) \div 100
    IN  IF f = "simplify_mesh_with_open3d" THEN (IF t > 2 THEN t ELSE 2) ELSE t

\* the target count and the simplification; with a target of 0 the voxel size
\* of the clustering is not finite and the library call may raise
SimplifyMesh ==
    /\ pc = "loaded"
    /\ target_count' = TargetVertexCount(fn, vertex_count, percentage)
    /\ \/ /\ pc' = "simplified"
          /\ UNCHANGED raised
       \/ /\ target_count' = 0
          /\ pc' = "raised"
          /\ raised' = "Exception"
    /\ UNCHANGED <<fn, gridVars, layoutVars, inputVars, meshVars, exit_status, saved, shown,
                   wall_meshes, stencilVars, percentage, vertex_count, io_log,
                   helperVars>>

\* o3d.io.write_triangle_mesh(output_file, simplified_mesh); return
WriteMesh ==
    /\ pc = "simplified"
    /\ io_log' = Append(io_log, "write")
    /\ pc' = "returned"
    /\ UNCHANGED <<fn, gridVars, layoutVars, inputVars, meshVars, mainVars, stencilVars,
                   percentage, vertex_count, target_count, helperVars>>

NextSimplify ==
    \/ ValidatePercentage
    \/ LoadMesh
    \/ SimplifyMesh
    \/ WriteMesh

SpecSimplify == InitSimplify /\ [][NextSimplify]_vars

----------------------------------------------------------------------------
(* Mesh simplification: claims *)

\* C19: both functions raise ValueError, before anything is loaded or
\* written, for every percentage that is not strictly between 0 and 1;
\* 0 and 1 are both rejected.
C19_RejectsOutsideOpenInterval ==
    (fn \in SimplifyFunctions /\ pc # "start" /\ (percentage <= 0 \/ percentage >= 100)) =>
        /\ pc = "raised"
        /\ raised = "ValueError"
        /\ io_log = <<>>

----------------------------------------------------------------------------
(* Hue shift: image-manipulation/hue-shift.py.  shift_factor is a          *)
(* fraction num/den; the hue channel of the image is followed through the  *)
(* lookup table that Image.point builds from the lambda, one entry for     *)
(* each of the 256 values of a band.                                       *)

HueLevels == 256

HueScale == 255

Hues == 0..(HueLevels - 1)

\* int(x) for x = a/b, b > 0: the fraction is cut off towards zero
FloorOf(a, b) == a \div b

IntOf(a, b) == IF a >= 0 THEN a \div b ELSE 0 - ((0 - a) \div b)

\* h.point(lambda i: (i + shift_value) % 256)
PointShift(shift_value) == [i \in Hues |-> (i + shift_value) % HueLevels]

NoShift == [num_variations |-> 0, num |-> 0, den |-> 1]

InitHue ==
    /\ \/ /\ fn = "shift_hue"
          /\ pc = "shift_hue"
          /\ \E d \in 1..MaxDenominator, n \in (0 - 2 * MaxDenominator)..(2 * MaxDenominator) :
                args = [NoShift EXCEPT !.num = n, !.den = d]
       \/ /\ fn = "even_hue_shift"
          /\ pc = "loop"
          /\ \E n \in 1..MaxVariations : args = [NoShift EXCEPT !.num_variations = n]
    /\ locals = [i |-> 0, shift_value |-> 0, result_images |-> <<>>]
    /\ GridIdle
    /\ LayoutIdle
    /\ InputIdle
    /\ MeshIdle
    /\ MainIdle
    /\ StencilIdle
    /\ SimplifyIdle

\* even_hue_shift: hue_shift_factor = i / num_variations, then the call
NextVariation ==
    /\ fn = "even_hue_shift"
    /\ pc = "loop"
    /\ locals.i < args.num_variations
    /\ args' = [args EXCEPT !.num = locals.i, !.den = args.num_variations]
    /\ pc' = "shift_hue"
    /\ UNCHANGED <<fn, gridVars, layoutVars, inputVars, meshVars, mainVars, stencilVars,
                   simplifyVars, locals>>

\* shift_hue: shift_value = int(255 * shift_factor), the hue band mapped
\* through the lambda; for even_hue_shift the result is appended
ShiftHue ==
    /\ pc = "shift_hue"
    /\ LET shift_value == IntOf(HueScale * args.num, args.den)
       IN  locals' = [locals EXCEPT
                         !.shift_value = shift_value,
                         !.result_images = Append(@, PointShift(shift_value)),
                         !.i = IF fn = "even_hue_shift" THEN @ + 1 ELSE @]
    /\ pc' = IF fn = "even_hue_shift" THEN "loop" ELSE "returned"
    /\ UNCHANGED <<fn, gridVars, layoutVars, inputVars, meshVars, mainVars, stencilVars,
                   simplifyVars, args>>

\* even_hue_shift: return result_images
ReturnVariations ==
    /\ fn = "even_hue_shift"
    /\ pc = "loop"
    /\ locals.i >= args.num_variations
    /\ pc' = "returned"
    /\ UNCHANGED <<fn, gridVars, layoutVars, inputVars, meshVars, mainVars, stencilVars,
                   simplifyVars, helperVars>>

NextHue ==
    \/ NextVariation
    \/ ShiftHue
    \/ ReturnVariations

SpecHue == InitHue /\ [][NextHue]_vars

----------------------------------------------------------------------------
(* Hue shift: claims *)

InHue == fn \in {"shift_hue", "even_hue_shift"}

\* the table of the image made last
LastTable == locals.result_images[Len(locals.result_images)]

Shifted == InHue /\ pc \in {"loop", "returned"} /\ locals.result_images # <<>>

\* 255 * shift_factor, rounded down and cut off towards zero
Floor255 == (255 * args.num) \div args.den

Trunc255 ==
    IF args.num >= 0 THEN (255 * args.num) \div args.den
                     ELSE 0 - ((255 * (0 - args.num)) \div args.den)

IsBijection(t) == {t[h] : h \in 0..255} = 0..255

----------------------------------------------------------------------------
(* Merging OBJ files: model-manipulation/mergeModels.py.  A line of a file *)
(* is a record: its kind ("v", "vn", "f" or "#" for any other line), the   *)
(* file it stands in, its rank among the lines of its kind in that file,   *)
(* and for a face the vertex indices it names.                             *)

Line(kind, file, k, refs) == [kind |-> kind, file |-> file, k |-> k, refs |-> refs]

\* a file with nv vertices, nn normals and, if wanted, one face over all its
\* vertices, behind a comment line
ObjFile(file, nv, nn, face) ==
    <<Line("#", file, 1, <<>>)>>
    \o [k \in 1..nv |-> Line("v", file, k, <<>>)]
    \o [k \in 1..nn |-> Line("vn", file, k, <<>>)]
    \o (IF face /\ nv > 0 THEN <<Line("f", file, 1, [k \in 1..nv |-> k])>> ELSE <<>>)

ObjFiles(file) ==
    {ObjFile(file, nv, nn, face) : nv \in 0..MaxFileVertices, nn \in 0..1, face \in BOOLEAN}

InitMerge ==
    /\ fn = "merge_obj_files"
    /\ pc = "reading"
    /\ \E n \in 1..MaxFiles :
          \E fs \in [0..(n - 1) -> UNION {ObjFiles(i) : i \in 0..(n - 1)}] :
              /\ \A i \in 0..(n - 1) : fs[i] \in ObjFiles(i)
              /\ args = [num_files |-> n, files |-> fs]
    /\ locals = [i |-> 0, vertices |-> <<>>, normals |-> <<>>, faces |-> <<>>,
                 merged_data |-> <<>>]
    /\ GridIdle
    /\ LayoutIdle
    /\ InputIdle
    /\ MeshIdle
    /\ MainIdle
    /\ StencilIdle
    /\ SimplifyIdle

\* "for line in lines": the lines of one kind, in order
LinesOfKind(lines_, kind) == SelectSeq(lines_, LAMBDA l : l.kind = kind)

\* one pass of "for i in range(num_files)": the file is read and its lines are
\* appended, as they are, to the three lists
ReadObjFile ==
    /\ fn = "merge_obj_files"
    /\ pc = "reading"
    /\ locals.i < args.num_files
    /\ LET lines_ == args.files[locals.i]
       IN  locals' = [locals EXCEPT
                         !.vertices = @ \o LinesOfKind(lines_, "v"),
                         !.normals = @ \o LinesOfKind(lines_, "vn"),
                         !.faces = @ \o LinesOfKind(lines_, "f"),
                         !.i = @ + 1]
    /\ UNCHANGED <<pc, fn, gridVars, layoutVars, inputVars, meshVars, mainVars, stencilVars,
                   simplifyVars, args>>

\* merged_data = vertices + normals + faces, written to the output file
WriteMerged ==
    /\ fn = "merge_obj_files"
    /\ pc = "reading"
    /\ locals.i >= args.num_files
    /\ locals' = [locals EXCEPT !.merged_data = locals.vertices \o locals.normals \o locals.faces]
    /\ pc' = "written"
    /\ UNCHANGED <<fn, gridVars, layoutVars, inputVars, meshVars, mainVars, stencilVars,
                   simplifyVars, args>>

NextMerge ==
    \/ ReadObjFile
    \/ WriteMerged

SpecMerge == InitMerge /\ [][NextMerge]_vars

----------------------------------------------------------------------------
(* Merging OBJ files: claims *)

\* the vertex list of the written file: its "v" lines in order
MergedVertices == SelectSeq(locals.merged_data, LAMBDA l : l.kind = "v")

\* C28: in the file written by merge_obj_files a face taken from input file i
\* that references vertex index k refers, in the merged vertex list, to the
\* k-th vertex of file i, for every number of input files.
C28_FacesKeepVertices ==
    (fn = "merge_obj_files" /\ pc = "written") =>
        \A j \in DOMAIN locals.merged_data :
            LET l == locals.merged_data[j]
            IN  l.kind = "f" =>
                   \A r \in DOMAIN l.refs :
                       /\ l.refs[r] <= Len(MergedVertices)
                       /\ MergedVertices[l.refs[r]].file = l.file
                       /\ MergedVertices[l.refs[r]].k = l.refs[r]

----------------------------------------------------------------------------
(* Trimming a video: video-manipulation/format_videos.py trim_video.       *)
(* Times are whole seconds; start_time and end_time are stored doubled so  *)
(* that the halving is exact.                                              *)

InitTrim ==
    /\ fn = "trim_video"
    /\ pc = "start"
    /\ \E t \in 0..MaxSeconds, d \in 1..MaxSeconds :
          args = [total_duration |-> t, duration |-> d]
    /\ locals = [start_time |-> 0, end_time |-> 0]
    /\ GridIdle
    /\ LayoutIdle
    /\ InputIdle
    /\ MeshIdle
    /\ MainIdle
    /\ StencilIdle
    /\ SimplifyIdle

\* max(0, x)
Max0(x) == IF x > 0 THEN x ELSE 0

\* start_time = max(0, (total_duration - duration) / 2);
\* end_time = start_time + duration
ComputeWindow ==
    /\ fn = "trim_video"
    /\ pc = "start"
    /\ LET start2 == Max0(args.total_duration - args.duration)
       IN  locals' = [start_time |-> start2, end_time |-> start2 + 2 * args.duration]
    /\ pc' = "window"
    /\ UNCHANGED <<fn, gridVars, layoutVars, inputVars, meshVars, mainVars, stencilVars,
                   simplifyVars, args>>

\* clip.subclip(start_time, end_time) and write_videofile
WriteTrimmed ==
    /\ fn = "trim_video"
    /\ pc = "window"
    /\ pc' = "written"
    /\ UNCHANGED <<fn, gridVars, layoutVars, inputVars, meshVars, mainVars, stencilVars,
                   simplifyVars, helperVars>>

NextTrim ==
    \/ ComputeWindow
    \/ WriteTrimmed

SpecTrim == InitTrim /\ [][NextTrim]_vars

----------------------------------------------------------------------------
(* Trimming a video: claims *)

\* C29: for every clip length total >= 0 and duration > 0 the window
\* [start_time, end_time] has length duration, is centred in the clip
\* (start_time = total - end_time) and lies inside it (0 <= start_time and
\* end_time <= total).  Times are doubled.
C29_WindowInsideClip ==
    (fn = "trim_video" /\ pc \in {"window", "written"}) =>
        /\ locals.end_time - locals.start_time = 2 * args.duration
        /\ locals.start_time = 2 * args.total_duration - locals.end_time
        /\ 0 <= locals.start_time
        /\ locals.end_time <= 2 * args.total_duration

----------------------------------------------------------------------------
(* Splitting an image into cube faces: image-manipulation/image-split.py.  *)
(* A crop box is (left, upper, right, lower) as Image.crop takes it.       *)

Box(l, u, r, b) == [left |-> l, upper |-> u, right |-> r, lower |-> b]

InitSplit ==
    /\ fn = "image-split"
    /\ pc = "start"
    /\ \E w \in 1..MaxImageSide, h \in 1..MaxImageSide :
          args = [width |-> w, height |-> h]
    /\ locals = <<>>
    /\ GridIdle
    /\ LayoutIdle
    /\ InputIdle
    /\ MeshIdle
    /\ MainIdle
    /\ StencilIdle
    /\ SimplifyIdle

\* face_width = width // 3, face_height = height // 3 and the six crops
CropFaces ==
    /\ fn = "image-split"
    /\ pc = "start"
    /\ LET face_width == args.width \div 3
           face_height == args.height \div 3
       IN  locals' =
             [face_width |-> face_width,
              face_height |-> face_height,
              left_face |-> Box(0, face_height, face_width, 2 * face_height),
              right_face |-> Box(2 * face_width, face_height, 3 * face_width, 2 * face_height),
              top_face |-> Box(face_width, 0, 2 * face_width, face_height),
              bottom_face |-> Box(face_width, 2 * face_height, 2 * face_width, args.height),
              front_face |-> Box(face_width, face_height, 2 * face_width, 2 * face_height),
              back_face |-> Box(2 * face_width, 0, 3 * face_width, face_height)]
    /\ pc' = "cropped"
    /\ UNCHANGED <<fn, gridVars, layoutVars, inputVars, meshVars, mainVars, stencilVars,
                   simplifyVars, args>>

\* the six faces are saved
SaveFaces ==
    /\ fn = "image-split"
    /\ pc = "cropped"
    /\ pc' = "saved"
    /\ UNCHANGED <<fn, gridVars, layoutVars, inputVars, meshVars, mainVars, stencilVars,
                   simplifyVars, helperVars>>

NextSplit ==
    \/ CropFaces
    \/ SaveFaces

SpecSplit == InitSplit /\ [][NextSplit]_vars

----------------------------------------------------------------------------
(* Splitting an image: claims *)

FaceNames == {"left_face", "right_face", "top_face", "bottom_face", "front_face", "back_face"}

Pixels(b) == (b.left..(b.right - 1)) \X (b.upper..(b.lower - 1))

\* C30: for every image width and height the six crop boxes all have the size
\* face_width x face_height with face_width = width // 3 and
\* face_height = height // 3, lie inside the image and do not overlap.
C30_FacesEqualAndDisjoint ==
    (fn = "image-split" /\ pc \in {"cropped", "saved"}) =>
        /\ locals.face_width = args.width \div 3
        /\ locals.face_height = args.height \div 3
        /\ \A f \in FaceNames :
              /\ locals[f].right - locals[f].left = args.width \div 3
              /\ locals[f].lower - locals[f].upper = args.height \div 3
              /\ 0 <= locals[f].left /\ locals[f].right <= args.width
              /\ 0 <= locals[f].upper /\ locals[f].lower <= args.height
        /\ \A f, g \in FaceNames :
              f # g => Pixels(locals[f]) \cap Pixels(locals[g]) = {}

----------------------------------------------------------------------------
(* Hole loops: claims *)

In3d == fn = "create_airflow_mesh"

InPrinting == fn = "add_airflow_holes"

\* the hole positions whose pass ended with a cut, in grid order
RECURSIVE CutPositions(_)
CutPositions(k) ==
    IF k = 0 THEN <<>>
    ELSE IF outcomes[k] = "cut"
            THEN Append(CutPositions(k - 1), hole_positions[k])
            ELSE CutPositions(k - 1)

\* a pass of add_airflow_holes whose subtraction did not succeed leaves
\* result_mesh as it was, and the loop goes on to the next position
C11_Step ==
    (InPrinting /\ pc = "holes" /\ hole_idx' = hole_idx + 1) =>
        /\ outcomes'[hole_idx] # "cut" => result_mesh' = result_mesh
        /\ pc' = "holes"
        /\ Len(outcomes') = hole_idx

\* result_mesh holds exactly the holes of the passes that succeeded, in grid
\* order, and the function returns only after every position was tried
C11_Result ==
    (InPrinting /\ pc \in {"holes", "returned"}) =>
        /\ result_mesh.holes = CutPositions(Len(outcomes))
        /\ pc = "returned" => Len(outcomes) = Len(hole_positions)

\* C11: in add_airflow_holes a hole whose boolean subtraction is invalid or
\* raises is skipped, result_mesh keeps its value, every later position is
\* still tried, and the returned mesh holds exactly the successful
\* subtractions in grid order.
C11_SkipAndContinue == [][C11_Step]_vars /\ []C11_Result

\* a failed subtraction followed by a successful one
C11_Witness ==
    /\ InPrinting
    /\ pc = "returned"
    /\ Len(outcomes) >= 3
    /\ \E i, j \in DOMAIN outcomes :
          i < j /\ outcomes[i] \in {"invalid", "raise"} /\ outcomes[j] = "cut"
    /\ \E i, j \in DOMAIN outcomes :
          i < j /\ outcomes[i] = "cut" /\ outcomes[j] \in {"invalid", "raise"}

HolesOfMesh0 == IF Len(ms) = 0 THEN {} ELSE {ms[1].holes[k] : k \in DOMAIN ms[1].holes}

\* C12: in create_airflow_mesh, when the boolean step of hole i fails, every
\* hole cut successfully before i is still in the mesh finally returned.
C12_EarlierHolesKept ==
    (In3d /\ pc = "returned") =>
        \A i \in DOMAIN outcomes :
            outcomes[i] = "boolean_failed" =>
                \A j \in 1..(i - 1) :
                    outcomes[j] = "cut" => hole_positions[j] \in HolesOfMesh0

Degenerate ==
    \/ max_x - min_x <= 2 * hole_spacing
    \/ max_y - min_y <= 2 * hole_spacing

\* C14: with zero holes (W <= 2S or L <= 2S) no boolean operation is done and
\* the base shape comes back unmodified: add_airflow_holes returns the mesh it
\* was given, create_airflow_mesh a mesh set holding only the base box.
C14_ZeroHoles ==
    (pc = "returned" /\ Degenerate) =>
        /\ booleans = 0
        /\ outcomes = <<>>
        /\ InPrinting => result_mesh = BaseBox
        /\ In3d => ms = <<BaseBox>>

C14_Witness ==
    /\ In3d
    /\ pc = "returned"
    /\ width <= 2 * hole_spacing
    /\ length > 2 * hole_spacing
    /\ hole_positions = <<>>
    /\ ms = <<BaseBox>>

\* the final check replaces an empty result by the base box alone
C15_Step ==
    (In3d /\ pc = "holes" /\ pc' = "returned" /\ (ms = <<>> \/ ms[1].empty)) =>
        ms' = <<BaseBox>>

C15_Result ==
    (In3d /\ pc = "returned") => (Len(ms) >= 1 /\ ~ms[1].empty)

\* C15: once the base box was loaded create_airflow_mesh never returns an
\* empty result: at return the mesh set holds a mesh and mesh 0 has vertices;
\* a set left without meshes or with an empty mesh 0 is cleared and reloaded
\* with the base box alone.
C15_NeverEmpty == [][C15_Step]_vars /\ []C15_Result

\* the loop ended with no mesh in the set (the reload after a failed
\* subtraction failed itself) and the function returned
C15_Witness ==
    /\ In3d
    /\ pc = "returned"
    /\ Len(outcomes) >= 2
    /\ outcomes[Len(outcomes)] = "reload_load_fail"
    /\ "cut" \in {outcomes[k] : k \in DOMAIN outcomes}
    /\ ms = <<BaseBox>>

\* C16: when no export, load or unlink step failed, no temporary file is left
\* when create_airflow_mesh returns, whatever the boolean steps did.
C16_NoTempFiles ==
    (In3d /\ pc = "returned" /\ ~io_failed) => tmp_live = {}

C16_Witness ==
    /\ In3d
    /\ pc = "returned"
    /\ ~io_failed
    /\ tmp_live = {}
    /\ Len(outcomes) >= 3
    /\ {"cut", "boolean_failed", "boolean_raise"} \subseteq {outcomes[k] : k \in DOMAIN outcomes}

\* C20: a temporary file whose export or load failed before its os.unlink is
\* never deleted afterwards: it exists when the function returns or raises.
C20_Leak ==
    /\ [](In3d => failed_files \subseteq tmp_live)
    /\ [][In3d => tmp_live \subseteq tmp_live']_vars

\* an export failed in an early pass and the function returned
C20_Witness ==
    /\ In3d
    /\ pc = "returned"
    /\ Len(outcomes) >= 2
    /\ outcomes[1] = "export_fail"
    /\ <<1, "cyl">> \in tmp_live
    /\ <<1, "cyl">> \in failed_files

====
